---- MODULE Spec2Model ----
(***************************************************************************)
(* A model of the CSS selector builder of src/src/05-objects-tasks.js:     *)
(* class Builder (a mutable string value1 plus six "...Exist" flags) and   *)
(* the facade object cssSelectorBuilder.  Builders live in a heap and are  *)
(* referred to by their index, so that aliasing (an operand of combine     *)
(* being the receiver, two chains interleaved) is part of the model.       *)
(* Strings are sequences of one-character strings.                         *)
(***************************************************************************)
EXTENDS Integers, Sequences, FiniteSets, TLC

VARIABLES builders, log, last, pre, rect

vars == <<builders, log, last, pre, rect>>

\* ---------------------------------------------------------------- bounds
\* the heap holds at most MaxBuilders builders
MaxBuilders == 3
\* at most MaxOps successful mutating calls (fragments, combines) in a run
MaxOps == 3
\* a single chain is followed for at most MaxChain successful fragment calls
MaxChain == 6

\* where a builder's own combine is called, at most MaxOperands builders exist
MaxOperands == 2

\* the width and the height of a rectangle are integers of at most MaxSide
\* in absolute value
MaxSide == 5

\* the fragment values and combinator tokens the calls are made with
Values == {<< >>, <<"a">>}
\* the fragment values used where several builders are in play
FewValues == {<<"a">>}
Combinators == {<<"+">>, <<" ">>}

\* ------------------------------------------------------- program constants
OneTimeInsideError_than ==
  "Element, id and pseudo-element should not occur more than one time inside the selector"
OneTimeInsideError ==
  "Element, id and pseudo-element should not occur more then one time inside the selector"
FollowingOrderError ==
  "Selector parts should be arranged in the following order: element, id, class, attribute, pseudo-class, pseudo-element"

\* no exception was thrown
NoError == ""

\* ------------------------------------------------------- function Rectangle
\* the object literal rec: two properties and the method getArea, which
\* closes over the parameters width and height
Rectangle(width, height) ==
  [width |-> width, height |-> height,
   getArea |-> [width |-> width, height |-> height]]

\* rec.getArea(): width * height of the closure
Rectangle_getArea_sum(rec) == rec.getArea.width + rec.getArea.height
Rectangle_getArea(rec) == rec.getArea.width * rec.getArea.height

\* ------------------------------------------------------------ class Builder
\* new Builder(): value1 = '', every ...Exist property undefined (falsy)
Builder_constructor ==
  [value1 |-> << >>,
   elementExist |-> FALSE, idExist |-> FALSE, classExist |-> FALSE,
   attrExist |-> FALSE, pseudoClassExist |-> FALSE, pseudoElementExist |-> FALSE]

\* `throw new Error(msg)`: the call ends, the heap is as it was at the throw
Throw(h, msg) == [heap |-> h, ret |-> 0, str |-> << >>, err |-> msg]
ReturnThis_noreturn(h, self) == [heap |-> h, ret |-> 0, str |-> << >>, err |-> NoError]
\* `return this`
ReturnThis(h, self) == [heap |-> h, ret |-> self, str |-> << >>, err |-> NoError]
\* `return <string>`
ReturnStr(h, s) == [heap |-> h, ret |-> 0, str |-> s, err |-> NoError]

Builder_stringify_flush(h, self) ==
  ReturnStr([h EXCEPT ![self].value1 = << >>], h[self].value1)
Builder_stringify(h, self) == ReturnStr(h, h[self].value1)

Builder_element_nodup(h, self, value) ==
  IF h[self].idExist \/ h[self].classExist \/ h[self].attrExist
       \/ h[self].pseudoClassExist \/ h[self].pseudoElementExist
  THEN Throw(h, FollowingOrderError)
  ELSE ReturnThis([h EXCEPT ![self].elementExist = TRUE,
                            ![self].value1 = @ \o value], self)
Builder_element_orderfirst(h, self, value) ==
  IF h[self].idExist \/ h[self].classExist \/ h[self].attrExist
       \/ h[self].pseudoClassExist \/ h[self].pseudoElementExist
  THEN Throw(h, FollowingOrderError)
  ELSE IF h[self].elementExist
  THEN Throw(h, OneTimeInsideError)
  ELSE ReturnThis([h EXCEPT ![self].elementExist = TRUE,
                            ![self].value1 = @ \o value], self)
Builder_element(h, self, value) ==
  IF h[self].elementExist
  THEN Throw(h, OneTimeInsideError)
  ELSE IF h[self].idExist \/ h[self].classExist \/ h[self].attrExist
            \/ h[self].pseudoClassExist \/ h[self].pseudoElementExist
  THEN Throw(h, FollowingOrderError)
  ELSE ReturnThis([h EXCEPT ![self].elementExist = TRUE,
                            ![self].value1 = @ \o value], self)

Builder_id_noprefix(h, self, value) ==
  IF h[self].idExist
  THEN Throw(h, OneTimeInsideError)
  ELSE IF h[self].classExist \/ h[self].attrExist
            \/ h[self].pseudoClassExist \/ h[self].pseudoElementExist
  THEN Throw(h, FollowingOrderError)
  ELSE ReturnThis([h EXCEPT ![self].idExist = TRUE,
                            ![self].value1 = @ \o value], self)
Builder_id_flagfirst(h, self, value) ==
  IF h[self].idExist
  THEN Throw(h, OneTimeInsideError)
  ELSE IF h[self].classExist \/ h[self].attrExist
            \/ h[self].pseudoClassExist \/ h[self].pseudoElementExist
  THEN Throw([h EXCEPT ![self].idExist = TRUE], FollowingOrderError)
  ELSE ReturnThis([h EXCEPT ![self].idExist = TRUE,
                            ![self].value1 = (@ \o <<"#">>) \o value], self)
Builder_id_skipempty(h, self, value) ==
  IF h[self].idExist
  THEN Throw(h, OneTimeInsideError)
  ELSE IF h[self].classExist \/ h[self].attrExist
            \/ h[self].pseudoClassExist \/ h[self].pseudoElementExist
  THEN Throw(h, FollowingOrderError)
  ELSE ReturnThis([h EXCEPT ![self].idExist = (value # << >>),
                            ![self].value1 = (@ \o <<"#">>) \o value], self)
Builder_id(h, self, value) ==
  IF h[self].idExist
  THEN Throw(h, OneTimeInsideError)
  ELSE IF h[self].classExist \/ h[self].attrExist
            \/ h[self].pseudoClassExist \/ h[self].pseudoElementExist
  THEN Throw(h, FollowingOrderError)
  ELSE ReturnThis([h EXCEPT ![self].idExist = TRUE,
                            ![self].value1 = (@ \o <<"#">>) \o value], self)

Builder_class_noattrcheck(h, self, value) ==
  IF h[self].pseudoClassExist \/ h[self].pseudoElementExist
  THEN Throw(h, FollowingOrderError)
  ELSE ReturnThis([h EXCEPT ![self].classExist = TRUE,
                            ![self].value1 = (@ \o <<".">>) \o value], self)
Builder_class(h, self, value) ==
  IF h[self].attrExist \/ h[self].pseudoClassExist \/ h[self].pseudoElementExist
  THEN Throw(h, FollowingOrderError)
  ELSE ReturnThis([h EXCEPT ![self].classExist = TRUE,
                            ![self].value1 = (@ \o <<".">>) \o value], self)

Builder_attr_nocheck(h, self, value) ==
  ReturnThis([h EXCEPT ![self].attrExist = TRUE,
                       ![self].value1 = ((@ \o <<"[">>) \o value) \o <<"]">>],
             self)
Builder_attr(h, self, value) ==
  IF h[self].pseudoClassExist \/ h[self].pseudoElementExist
  THEN Throw(h, FollowingOrderError)
  ELSE ReturnThis([h EXCEPT ![self].attrExist = TRUE,
                            ![self].value1 = ((@ \o <<"[">>) \o value) \o <<"]">>],
                  self)

Builder_pseudoClass_appendfirst(h, self, value) ==
  IF h[self].pseudoElementExist
  THEN Throw([h EXCEPT ![self].value1 = @ \o <<":">>], FollowingOrderError)
  ELSE ReturnThis([h EXCEPT ![self].pseudoClassExist = TRUE,
                            ![self].value1 = (@ \o <<":">>) \o value], self)
Builder_pseudoClass(h, self, value) ==
  IF h[self].pseudoElementExist
  THEN Throw(h, FollowingOrderError)
  ELSE ReturnThis([h EXCEPT ![self].pseudoClassExist = TRUE,
                            ![self].value1 = (@ \o <<":">>) \o value], self)

Builder_pseudoElement_nodup(h, self, value) ==
  ReturnThis([h EXCEPT ![self].pseudoElementExist = TRUE,
                       ![self].value1 = (@ \o <<":", ":">>) \o value], self)
Builder_pseudoElement(h, self, value) ==
  IF h[self].pseudoElementExist
  THEN Throw(h, OneTimeInsideError)
  ELSE ReturnThis([h EXCEPT ![self].pseudoElementExist = TRUE,
                            ![self].value1 = (@ \o <<":", ":">>) \o value], self)

\* `this.value1 += x`: the present text of the receiver is read, then x is
\* evaluated (r is the outcome of that evaluation, in its own heap), then
\* the sum is stored
PlusAssign(h, self, r) == [r.heap EXCEPT ![self].value1 = h[self].value1 \o r.str]

\* combine: five `this.value1 += ...` statements in sequence; each
\* stringify() reads its operand in the heap as it is at that statement
Builder_combine_nospaces(h, self, selector1, combinator, selector2) ==
  LET h1 == PlusAssign(h, self, Builder_stringify(h, selector1))
      h3 == PlusAssign(h1, self, ReturnStr(h1, combinator))
      h5 == PlusAssign(h3, self, Builder_stringify(h3, selector2))
  IN  ReturnThis(h5, self)
Builder_combine_drain(h, self, selector1, combinator, selector2) ==
  LET h1 == PlusAssign(h, self, Builder_stringify(h, selector1))
      h2 == PlusAssign(h1, self, ReturnStr(h1, <<" ">>))
      h3 == PlusAssign(h2, self, ReturnStr(h2, combinator))
      h4 == PlusAssign(h3, self, ReturnStr(h3, <<" ">>))
      h5 == PlusAssign(h4, self, Builder_stringify(h4, selector2))
  IN  ReturnThis([h5 EXCEPT ![selector2] =
                     IF selector2 = self THEN @ ELSE Builder_constructor], self)
Builder_combine_setsflag(h, self, selector1, combinator, selector2) ==
  LET h1 == PlusAssign(h, self, Builder_stringify(h, selector1))
      h2 == PlusAssign(h1, self, ReturnStr(h1, <<" ">>))
      h3 == PlusAssign(h2, self, ReturnStr(h2, combinator))
      h4 == PlusAssign(h3, self, ReturnStr(h3, <<" ">>))
      h5 == PlusAssign(h4, self, Builder_stringify(h4, selector2))
  IN  ReturnThis([h5 EXCEPT ![self].pseudoElementExist = TRUE], self)
Builder_combine_swapped(h, self, selector1, combinator, selector2) ==
  LET h1 == PlusAssign(h, self, Builder_stringify(h, selector2))
      h2 == PlusAssign(h1, self, ReturnStr(h1, <<" ">>))
      h3 == PlusAssign(h2, self, ReturnStr(h2, combinator))
      h4 == PlusAssign(h3, self, ReturnStr(h3, <<" ">>))
      h5 == PlusAssign(h4, self, Builder_stringify(h4, selector1))
  IN  ReturnThis(h5, self)
Builder_combine(h, self, selector1, combinator, selector2) ==
  LET h1 == PlusAssign(h, self, Builder_stringify(h, selector1))
      h2 == PlusAssign(h1, self, ReturnStr(h1, <<" ">>))
      h3 == PlusAssign(h2, self, ReturnStr(h2, combinator))
      h4 == PlusAssign(h3, self, ReturnStr(h3, <<" ">>))
      h5 == PlusAssign(h4, self, Builder_stringify(h4, selector2))
  IN  ReturnThis(h5, self)

\* the six fragment methods by name
Categories ==
  <<"element", "id", "class", "attr", "pseudoClass", "pseudoElement">>
CategoryNames == {Categories[i] : i \in 1..Len(Categories)}
Builder_call(h, self, cat, value) ==
  CASE cat = "element"       -> Builder_element(h, self, value)
    [] cat = "id"            -> Builder_id(h, self, value)
    [] cat = "class"         -> Builder_class(h, self, value)
    [] cat = "attr"          -> Builder_attr(h, self, value)
    [] cat = "pseudoClass"   -> Builder_pseudoClass(h, self, value)
    [] cat = "pseudoElement" -> Builder_pseudoElement(h, self, value)

\* ------------------------------------------------- facade cssSelectorBuilder
\* the ...Exist property a fragment method of a category sets and tests
Flag(b, cat) ==
  CASE cat = "element"       -> b.elementExist
    [] cat = "id"            -> b.idExist
    [] cat = "class"         -> b.classExist
    [] cat = "attr"          -> b.attrExist
    [] cat = "pseudoClass"   -> b.pseudoClassExist
    [] cat = "pseudoElement" -> b.pseudoElementExist
Flags(b) == [cat \in CategoryNames |-> Flag(b, cat)]

\* `new Builder()`: a fresh object at the end of the heap
New_shared(h) == IF Len(h) = 0 THEN Append(h, Builder_constructor) ELSE h
New(h) == Append(h, Builder_constructor)

cssSelectorBuilder_call_passvalue(h, cat, value) ==
  LET h1 == Append(h, [Builder_constructor EXCEPT !.value1 = value])
      r  == Builder_call(h1, Len(h1), cat, value)
  IN  IF r.err = NoError THEN r ELSE Throw(h, r.err)
\* cssSelectorBuilder.<cat>(value): return new Builder().<cat>(value)
cssSelectorBuilder_call(h, cat, value) ==
  LET h1 == New(h)
      r  == Builder_call(h1, Len(h1), cat, value)
  IN  IF r.err = NoError THEN r ELSE Throw(h, r.err)

\* cssSelectorBuilder.combine(selector1, combinator, selector2)
cssSelectorBuilder_combine(h, selector1, combinator, selector2) ==
  LET h1 == New(h)
  IN  Builder_combine(h1, Len(h1), selector1, combinator, selector2)

\* ------------------------------------------------------------ the program
\* the record of a call: what was called, on which builder, with which
\* arguments, and what came back (a builder reference, a string or an error)
Call(op, facade, self, value, left, right, r) ==
  [op |-> op, facade |-> facade, self |-> self, value |-> value,
   left |-> left, right |-> right, err |-> r.err, ret |-> r.ret, str |-> r.str]

\* an entry of a builder's history of successful calls: a fragment, or a
\* combine with the texts its operands had before the call
FragmentEntry(cat, value) ==
  [cat |-> cat, value |-> value, left |-> << >>, right |-> << >>]
CombineEntry(h, combinator, selector1, selector2) ==
  [cat |-> "combine", value |-> combinator,
   left |-> h[selector1].value1, right |-> h[selector2].value1]

NoCall ==
  [op |-> "none", facade |-> FALSE, self |-> 0, value |-> << >>,
   left |-> 0, right |-> 0, err |-> NoError, ret |-> 0, str |-> << >>]

RECURSIVE SumLen(_)
SumLen(s) == IF s = << >> THEN 0 ELSE Len(Head(s)) + SumLen(Tail(s))
\* the number of successful mutating calls made so far
TotalOps == SumLen(log)

Refs == 1..Len(builders)

\* no rectangle was made yet
NoRect ==
  [made |-> FALSE, width |-> 0, height |-> 0, obj |-> Rectangle(0, 0),
   got |-> FALSE, area |-> 0]

Init ==
  /\ builders = << >>
  /\ log = << >>
  /\ last = NoCall
  /\ pre = << >>
  /\ rect = NoRect

\* b = cssSelectorBuilder.<cat>(value)
FacadeFragment(cat, value) ==
  LET r == cssSelectorBuilder_call(builders, cat, value) IN
  /\ builders' = r.heap
  /\ log' = IF r.err = NoError
            THEN Append(log, <<FragmentEntry(cat, value)>>)
            ELSE log
  /\ last' = Call(cat, TRUE, Len(builders) + 1, value, 0, 0, r)
  /\ pre' = builders
  /\ UNCHANGED rect

\* b = cssSelectorBuilder.combine(selector1, combinator, selector2)
FacadeCombine(selector1, combinator, selector2) ==
  LET r == cssSelectorBuilder_combine(builders, selector1, combinator, selector2) IN
  /\ builders' = r.heap
  /\ log' = Append(log, <<CombineEntry(builders, combinator, selector1, selector2)>>)
  /\ last' = Call("combine", TRUE, Len(builders) + 1, combinator,
                  selector1, selector2, r)
  /\ pre' = builders
  /\ UNCHANGED rect

\* self.<cat>(value) on a builder made earlier
Fragment(self, cat, value) ==
  LET r == Builder_call(builders, self, cat, value) IN
  /\ builders' = r.heap
  /\ log' = IF r.err = NoError
            THEN [log EXCEPT ![self] = Append(@, FragmentEntry(cat, value))]
            ELSE log
  /\ last' = Call(cat, FALSE, self, value, 0, 0, r)
  /\ pre' = builders
  /\ UNCHANGED rect

\* self.combine(selector1, combinator, selector2) on a builder made earlier
Combine(self, selector1, combinator, selector2) ==
  LET r == Builder_combine(builders, self, selector1, combinator, selector2) IN
  /\ builders' = r.heap
  /\ log' = [log EXCEPT ![self] =
               Append(@, CombineEntry(builders, combinator, selector1, selector2))]
  /\ last' = Call("combine", FALSE, self, combinator, selector1, selector2, r)
  /\ pre' = builders
  /\ UNCHANGED rect

\* self.stringify()
Stringify(self) ==
  LET r == Builder_stringify(builders, self) IN
  /\ builders' = r.heap
  /\ log' = log
  /\ last' = Call("stringify", FALSE, self, << >>, 0, 0, r)
  /\ pre' = builders
  /\ UNCHANGED rect

\* the call self.<cat>(value) would throw in the present state
Fails(self, cat, value) == Builder_call(builders, self, cat, value).err # NoError

\* Several builders, made by the facade, extended and combined in any
\* interleaving.  A failing call and a stringify() are always possible; a
\* call that extends a builder needs budget.
Next ==
  \/ \E cat \in CategoryNames, value \in FewValues :
        /\ Len(builders) < MaxBuilders /\ TotalOps < MaxOps
        /\ FacadeFragment(cat, value)
  \/ \E s1 \in Refs, s2 \in Refs, c \in Combinators :
        /\ Len(builders) < MaxBuilders /\ TotalOps < MaxOps
        /\ FacadeCombine(s1, c, s2)
  \/ \E self \in Refs, cat \in CategoryNames, value \in FewValues :
        /\ TotalOps < MaxOps \/ Fails(self, cat, value)
        /\ Fragment(self, cat, value)
  \/ \E self \in Refs : Stringify(self)

Spec == Init /\ [][Next]_vars

\* One chain: a builder made by a facade fragment call and extended by
\* fragment calls only.
NextChain ==
  \/ \E cat \in CategoryNames, value \in Values :
        /\ Len(builders) < 1
        /\ FacadeFragment(cat, value)
  \/ \E self \in Refs, cat \in CategoryNames, value \in Values :
        /\ TotalOps < MaxChain \/ Fails(self, cat, value)
        /\ Fragment(self, cat, value)
  \/ \E self \in Refs : Stringify(self)

SpecChain == Init /\ [][NextChain]_vars

\* A few builders on which combine is called as a method, with every
\* aliasing of the receiver and the operands.
NextCombine ==
  \/ \E cat \in CategoryNames, value \in FewValues :
        /\ Len(builders) < MaxOperands /\ TotalOps < MaxOps
        /\ FacadeFragment(cat, value)
  \/ \E self \in Refs, cat \in CategoryNames, value \in FewValues :
        /\ TotalOps < MaxOps \/ Fails(self, cat, value)
        /\ Fragment(self, cat, value)
  \/ \E self \in Refs, s1 \in Refs, s2 \in Refs, c \in Combinators :
        /\ TotalOps < MaxOps
        /\ Combine(self, s1, c, s2)
  \/ \E self \in Refs : Stringify(self)

SpecCombine == Init /\ [][NextCombine]_vars

\* an entry of a builder's history for a stringify() and the text it returned
ReadEntry(text) ==
  [cat |-> "stringify", value |-> text, left |-> << >>, right |-> << >>]

\* self.stringify(), the read being entered in the builder's history
StringifyRead(self) ==
  LET r == Builder_stringify(builders, self) IN
  /\ builders' = r.heap
  /\ log' = [log EXCEPT ![self] = Append(@, ReadEntry(r.str))]
  /\ last' = Call("stringify", FALSE, self, << >>, 0, 0, r)
  /\ pre' = builders
  /\ UNCHANGED rect

\* A few builders that are read by stringify() and used further: the reads
\* are kept in the histories and count as calls.
NextRead ==
  \/ \E cat \in CategoryNames, value \in FewValues :
        /\ Len(builders) < MaxOperands /\ TotalOps < MaxOps
        /\ FacadeFragment(cat, value)
  \/ \E self \in Refs, cat \in CategoryNames, value \in FewValues :
        /\ TotalOps < MaxOps \/ Fails(self, cat, value)
        /\ Fragment(self, cat, value)
  \/ \E self \in Refs, s1 \in Refs, s2 \in Refs, c \in Combinators :
        /\ TotalOps < MaxOps
        /\ Combine(self, s1, c, s2)
  \/ \E self \in Refs :
        /\ TotalOps < MaxOps
        /\ StringifyRead(self)

SpecRead == Init /\ [][NextRead]_vars

\* Every kind of call on a few builders: the facade's fragment calls and
\* combine, and the fragment methods, combine and stringify() of a builder.
NextAllCalls ==
  \/ \E cat \in CategoryNames, value \in FewValues :
        /\ Len(builders) < MaxOperands /\ TotalOps < MaxOps
        /\ FacadeFragment(cat, value)
  \/ \E s1 \in Refs, s2 \in Refs, c \in Combinators :
        /\ Len(builders) < MaxOperands /\ TotalOps < MaxOps
        /\ FacadeCombine(s1, c, s2)
  \/ \E self \in Refs, cat \in CategoryNames, value \in FewValues :
        /\ TotalOps < MaxOps \/ Fails(self, cat, value)
        /\ Fragment(self, cat, value)
  \/ \E self \in Refs, s1 \in Refs, s2 \in Refs, c \in Combinators :
        /\ TotalOps < MaxOps
        /\ Combine(self, s1, c, s2)
  \/ \E self \in Refs : Stringify(self)

SpecAllCalls == Init /\ [][NextAllCalls]_vars

\* r = new Rectangle(width, height)
NewRectangle(width, height) ==
  /\ rect' = [made |-> TRUE, width |-> width, height |-> height,
              obj |-> Rectangle(width, height), got |-> FALSE, area |-> 0]
  /\ UNCHANGED <<builders, log, last, pre>>

\* r.getArea()
GetArea ==
  /\ rect.made
  /\ rect' = [rect EXCEPT !.got = TRUE, !.area = Rectangle_getArea(rect.obj)]
  /\ UNCHANGED <<builders, log, last, pre>>

Sides == (0 - MaxSide)..MaxSide

\* Rectangles of every width and height, and their areas.
NextRect ==
  \/ \E width \in Sides, height \in Sides : NewRectangle(width, height)
  \/ GetArea

SpecRect == Init /\ [][NextRect]_vars

\* ------------------------------------------------- vocabulary of the claims
\* the position of a category in the order element, id, class, attribute,
\* pseudo-class, pseudo-element
Rank(cat) == CHOOSE i \in 1..Len(Categories) : Categories[i] = cat
\* the categories that may occur once only
OnceOnly == {"element", "id", "pseudoElement"}

\* the formatted text of a fragment, as the specification words it
Format(cat, value) ==
  CASE cat = "element"       -> value
    [] cat = "id"            -> <<"#">> \o value
    [] cat = "class"         -> <<".">> \o value
    [] cat = "attr"          -> <<"[">> \o value \o <<"]">>
    [] cat = "pseudoClass"   -> <<":">> \o value
    [] cat = "pseudoElement" -> <<":", ":">> \o value

\* a sequence of fragments in weakly increasing category order, with
\* element, id and pseudoElement at most once each
ValidOrder(es) ==
  /\ \A i \in DOMAIN es : es[i].cat \in CategoryNames
  /\ \A i, j \in DOMAIN es : i < j => Rank(es[i].cat) <= Rank(es[j].cat)
  /\ \A i, j \in DOMAIN es :
        i < j /\ es[i].cat \in OnceOnly => es[i].cat # es[j].cat

RECURSIVE Concat(_)
Concat(es) ==
  IF es = << >> THEN << >>
  ELSE Format(Head(es).cat, Head(es).value) \o Concat(Tail(es))

\* the last call was a fragment method called on an existing builder
FragmentCalled == last.op \in CategoryNames /\ ~last.facade
\* the last call was a fragment call, on an existing builder or by the facade
AnyFragmentCalled == last.op \in CategoryNames

\* what had been appended to the receiver of the last call before that call
LogBefore ==
  IF last.self \notin DOMAIN log THEN << >>
  ELSE IF last.err = NoError /\ last.op # "stringify"
       THEN SubSeq(log[last.self], 1, Len(log[last.self]) - 1)
       ELSE log[last.self]
\* the categories present in the receiver before the last call
Had(cat) == \E i \in DOMAIN LogBefore : LogBefore[i].cat = cat
HadLaterThan(cat) ==
  \E i \in DOMAIN LogBefore :
     LogBefore[i].cat \in CategoryNames /\ Rank(LogBefore[i].cat) > Rank(cat)

\* ------------------------------------------------------------------ claims
\* C1: a chain of fragment calls in weakly increasing category order
\* (element, id, pseudoElement at most once) never fails, and the text of
\* the builder, which stringify() returns, is the concatenation in call
\* order of the formatted fragments and nothing else.
C1_ValidChainConcatenates ==
  /\ AnyFragmentCalled
       /\ ValidOrder(Append(LogBefore, FragmentEntry(last.op, last.value)))
       => last.err = NoError
  /\ \A b \in Refs :
       ValidOrder(log[b]) => builders[b].value1 = Concat(log[b])
  /\ last.op = "stringify" /\ ValidOrder(log[last.self])
       => last.str = Concat(log[last.self])

C1_Witness ==
  /\ last.op = "stringify"
  /\ [i \in DOMAIN log[1] |-> log[1][i].cat] = Categories
  /\ \A i \in DOMAIN log[1] : log[1][i].value = <<"a">>
  /\ last.str = <<"a", "#", "a", ".", "a", "[", "a", "]", ":", "a", ":", ":", "a">>

\* C2: element, id or pseudoElement called on a builder that already has a
\* fragment of that category raises the duplicate error, and stringify()
\* returns afterwards what it returned before the call.
C2_DuplicateRaises ==
  FragmentCalled /\ last.op \in OnceOnly /\ Had(last.op)
    => /\ last.err = OneTimeInsideError
       /\ Builder_stringify(builders, last.self).str
            = Builder_stringify(pre, last.self).str

C2_Witness ==
  /\ FragmentCalled /\ last.op = "pseudoElement" /\ Had("pseudoElement")
  /\ last.err = OneTimeInsideError
  /\ builders[last.self].value1 = <<"a", ":", ":", "a">>

\* C3 as stated: any fragment method called on a builder that already has a
\* fragment of a strictly later category raises the order error.
C3_Original ==
  FragmentCalled /\ HadLaterThan(last.op) => last.err = FollowingOrderError

\* C3, amended: any fragment method called on a builder that already has a
\* fragment of a strictly later category fails; it raises the order error,
\* except that element and id raise the duplicate error when the builder
\* already has a fragment of their own category.
C3_LaterCategoryRaises ==
  FragmentCalled /\ HadLaterThan(last.op)
    => last.err = IF last.op \in OnceOnly /\ Had(last.op)
                  THEN OneTimeInsideError
                  ELSE FollowingOrderError

C3_Witness ==
  /\ FragmentCalled /\ last.op = "class" /\ Had("attr") /\ ~Had("pseudoClass")
  /\ ~Had("pseudoElement")
  /\ last.err = FollowingOrderError

\* C4: in element and id (and pseudoElement, which has no later category)
\* the duplicate check comes first: with the own category and a strictly
\* later one both present, the duplicate error is raised, not the order
\* error.
C4_DuplicateBeforeOrder ==
  FragmentCalled /\ last.op \in OnceOnly /\ Had(last.op) /\ HadLaterThan(last.op)
    => last.err = OneTimeInsideError /\ last.err # FollowingOrderError

C4_Witness ==
  /\ FragmentCalled /\ last.op = "element"
  /\ [i \in DOMAIN log[last.self] |-> log[last.self][i].cat] = <<"element", "class">>
  /\ last.err = OneTimeInsideError

\* C5: a fragment call that fails leaves the builder as it was, text and
\* all six flags, so that every later call on it has the outcome it would
\* have had without the failed call.
C5_FailedCallChangesNothing ==
  AnyFragmentCalled /\ last.err # NoError
    => /\ builders = pre
       /\ \A cat \in CategoryNames, value \in Values :
             Builder_call(builders, last.self, cat, value)
               = Builder_call(pre, last.self, cat, value)

C5_Witness ==
  /\ FragmentCalled /\ last.op = "id" /\ last.err = FollowingOrderError
  /\ ~Had("id") /\ Had("element") /\ Had("attr")
  /\ builders = pre

\* the text of a builder whose history is es, worded as the specification
\* does: a leading combine is left text, space, combinator, space, right
\* text, and the fragments follow it
Flat(es) ==
  IF es # << >> /\ Head(es).cat = "combine"
  THEN Head(es).left \o <<" ">> \o Head(es).value \o <<" ">> \o Head(es).right
         \o Concat(Tail(es))
  ELSE Concat(es)

\* the last call was cssSelectorBuilder.combine
FacadeCombined == last.op = "combine" /\ last.facade

\* C6: cssSelectorBuilder.combine(a, c, b).stringify() is a.stringify(), a
\* space, c, a space, b.stringify() (three spaces for the combinator ' '),
\* and with an operand that is itself a combine result the output is the
\* flat concatenation of the nested results, nothing added.
C6_CombineConcatenates ==
  FacadeCombined
    => LET a   == Builder_stringify(pre, last.left).str
           b   == Builder_stringify(pre, last.right).str
           out == Builder_stringify(builders, last.ret).str
       IN  /\ last.err = NoError
           /\ out = a \o <<" ">> \o last.value \o <<" ">> \o b
           /\ last.value = <<" ">> => out = a \o <<" ", " ", " ">> \o b
           /\ out = Flat(log[last.left]) \o <<" ">> \o last.value \o <<" ">>
                      \o Flat(log[last.right])

C6_Witness ==
  /\ FacadeCombined
  /\ log[last.left][1].cat = "combine"
  /\ last.right # last.left
  /\ Builder_stringify(builders, last.ret).str
       = <<"a", " ", "+", " ", "a", " ", " ", " ", "a">>

\* C7: cssSelectorBuilder.combine only reads its operands: their text and
\* flags are as before the call, so they can be extended and combined
\* again as before; and a later successful fragment call on an operand
\* does not change the text of the combined builder.
C7_CombineReadsOnly ==
  /\ FacadeCombined
       => /\ builders[last.left] = pre[last.left]
          /\ builders[last.right] = pre[last.right]
          /\ \A cat \in CategoryNames, value \in Values :
                /\ Builder_call(builders, last.left, cat, value).err
                     = Builder_call(pre, last.left, cat, value).err
                /\ Builder_call(builders, last.right, cat, value).err
                     = Builder_call(pre, last.right, cat, value).err
  /\ FragmentCalled /\ last.err = NoError
       => \A r \in Refs :
             r # last.self /\ log[r][1].cat = "combine"
               => builders[r].value1 = pre[r].value1

C7_Witness ==
  /\ FragmentCalled /\ last.err = NoError /\ last.op = "class"
  /\ \E r \in Refs :
        /\ r # last.self /\ log[r][1].cat = "combine"
        /\ log[r][1].left = pre[last.self].value1
        /\ builders[r].value1 = <<"a", " ", "+", " ", "a">>
        /\ builders[last.self].value1 = <<"a", ".", "a">>

\* running a chain alone: the history es replayed on a builder of its own
\* (a combine reads two stand-ins that hold the operands' texts)
RECURSIVE RunAlone(_, _)
RunAlone(b, es) ==
  IF es = << >> THEN b
  ELSE LET e == Head(es)
           h == <<b, [Builder_constructor EXCEPT !.value1 = e.left],
                     [Builder_constructor EXCEPT !.value1 = e.right]>>
       IN  RunAlone(IF e.cat = "combine"
                    THEN Builder_combine(h, 1, 2, e.value, 3).heap[1]
                    ELSE Builder_call(h, 1, e.cat, e.value).heap[1],
                    Tail(es))
Alone(es) == RunAlone(Builder_constructor, es)

\* C8: every facade call returns a fresh builder that shares no state with
\* any other: whatever the interleaving, the text and flags of each chain,
\* and the success or failure of each of its calls, are those of the chain
\* run alone.
C8_FreshAndIndependent ==
  /\ last.facade
       => /\ last.err = NoError
          /\ last.ret = Len(pre) + 1
          /\ Len(builders) = Len(pre) + 1
          /\ \A b \in 1..Len(pre) : builders[b] = pre[b]
  /\ Len(log) = Len(builders)
  /\ \A b \in Refs : builders[b] = Alone(log[b])
  /\ FragmentCalled
       => /\ last.err = Builder_call(<<Alone(LogBefore)>>, 1, last.op, last.value).err
          /\ \A b \in Refs : b # last.self => builders[b] = pre[b]

C8_Witness ==
  /\ Len(builders) = 2
  /\ FragmentCalled /\ last.self = 1 /\ last.op = "id"
  /\ last.err = FollowingOrderError
  /\ [i \in DOMAIN log[1] |-> log[1][i].cat] = <<"element", "class">>
  /\ [i \in DOMAIN log[2] |-> log[2][i].cat] = <<"id">>

\* C9: stringify() is a pure read: no text and no flag changes, and a
\* further stringify() returns the same string again.
C9_StringifyPure ==
  last.op = "stringify"
    => /\ last.err = NoError
       /\ builders = pre
       /\ last.str = pre[last.self].value1
       /\ Builder_stringify(builders, last.self).str = last.str
       /\ Builder_stringify(builders, last.self).heap = builders

C9_Witness ==
  /\ last.op = "stringify"
  /\ last.str = <<"a", " ", " ", " ", "a", ".", "a">>
  /\ builders[last.self].value1 = last.str

\* the messages as the claim C10 words them
C10_DuplicateText_claimed ==
  "Element, id and pseudo-element should not occur more than one time inside the selector"
C10_DuplicateText ==
  "Element, id and pseudo-element should not occur more then one time inside the selector"
C10_OrderText ==
  "Selector parts should be arranged in the following order: element, id, class, attribute, pseudo-class, pseudo-element"

\* C10 as stated: a fragment call fails in one of two distinguishable ways,
\* the duplicate error with the message "... more than one time ..." or the
\* order error with its message, and in no other way.
C10_Original ==
  /\ C10_DuplicateText_claimed # C10_OrderText
  /\ AnyFragmentCalled
       => last.err \in {NoError, C10_DuplicateText_claimed, C10_OrderText}

\* C10, amended: the same, the duplicate error carrying the message as the
\* code spells it, "... more then one time ...".
C10_TwoErrors ==
  /\ C10_DuplicateText # C10_OrderText
  /\ AnyFragmentCalled
       => last.err \in {NoError, C10_DuplicateText, C10_OrderText}
  /\ FragmentCalled /\ last.err # NoError
       => last.err = IF last.op \in OnceOnly /\ Had(last.op)
                     THEN C10_DuplicateText
                     ELSE C10_OrderText

C10_Witness ==
  /\ FragmentCalled /\ last.op = "id" /\ Had("id")
  /\ last.err = C10_DuplicateText

\* the last call was a combine called on an existing builder
CombineCalled == last.op = "combine" /\ ~last.facade

\* C11: every successful fragment call and every combine call returns the
\* receiver itself, not a copy, so the next call of a chain acts on the
\* state this call left.
C11_ReturnsReceiver ==
  (AnyFragmentCalled \/ last.op = "combine") /\ last.err = NoError
    => /\ last.ret = last.self
       /\ last.ret \in Refs
       /\ ~last.facade
            => /\ Len(builders) = Len(pre)
               /\ SubSeq(builders[last.ret].value1, 1, Len(pre[last.self].value1))
                    = pre[last.self].value1

C11_Witness ==
  /\ CombineCalled /\ last.ret = last.self /\ last.left = last.self
  /\ Len(log[last.self]) = 3
  /\ log[last.self][2].cat = "class"

\* the i-th entry of the history of builder b is a stringify()
ReadAt(b, i) == log[b][i].cat = "stringify"

\* C12 as stated: once stringify() has been read on a builder, no later
\* operation changes the text of that builder.
C12_Original ==
  \A b \in Refs : \A i \in DOMAIN log[b] :
     ReadAt(b, i) => builders[b].value1 = log[b][i].value

\* C12, amended: a stringify() does not make the builder terminal.  After
\* it the text of the builder still begins with the string that was read,
\* and differs from it only if a fragment call or a combine call on that
\* same builder succeeded after the read; failed calls, further reads and
\* calls on other builders leave it as it was read.
C12_ReadTextOnlyExtended ==
  \A b \in Refs : \A i \in DOMAIN log[b] :
     ReadAt(b, i)
       => /\ SubSeq(builders[b].value1, 1, Len(log[b][i].value)) = log[b][i].value
          /\ (\A j \in DOMAIN log[b] : j > i => ReadAt(b, j))
               => builders[b].value1 = log[b][i].value

C12_Witness ==
  /\ last.op = "id" /\ last.err = NoError /\ last.self = 1
  /\ [i \in DOMAIN log[1] |-> log[1][i].cat] = <<"element", "stringify", "id">>
  /\ log[1][2].value = <<"a">>
  /\ builders[1].value1 = <<"a", "#", "a">>

\* C13: the object Rectangle(w, h) returns has width w and height h, and
\* its getArea() returns w * h.
C13_RectangleArea ==
  rect.made
    => /\ rect.obj.width = rect.width
       /\ rect.obj.height = rect.height
       /\ rect.got => rect.area = rect.width * rect.height

C13_Witness ==
  /\ rect.made /\ rect.got
  /\ rect.width = 0 - 2 /\ rect.height = 3
  /\ rect.area = 0 - 6

\* the categories of the entries of a history, in order
Cats(es) == [i \in DOMAIN es |-> es[i].cat]

\* C14: whatever was called on a builder (fragment calls that succeeded or
\* failed, stringify, combine), the categories of the fragments appended
\* to it are in non-decreasing order element, id, class, attribute,
\* pseudo-class, pseudo-element.
C14_AppendedInOrder ==
  \A b \in Refs : \A i, j \in DOMAIN log[b] :
     i < j /\ log[b][i].cat \in CategoryNames /\ log[b][j].cat \in CategoryNames
       => Rank(log[b][i].cat) <= Rank(log[b][j].cat)

C14_Witness ==
  /\ FragmentCalled /\ last.op = "class" /\ last.err = FollowingOrderError
  /\ Cats(log[last.self]) = <<"id", "pseudoClass", "combine">>

\* C15: whatever was called on a builder, at most one element fragment, at
\* most one id fragment and at most one pseudo-element fragment were
\* appended to it.
C15_AtMostOnce ==
  \A b \in Refs : \A cat \in OnceOnly :
     Cardinality({i \in DOMAIN log[b] : log[b][i].cat = cat}) <= 1

C15_Witness ==
  /\ FragmentCalled /\ last.op = "pseudoElement" /\ last.err = OneTimeInsideError
  /\ Cats(log[last.self]) = <<"element", "pseudoElement", "combine">>

\* C16: combine makes no order or duplicate check and records none: it
\* never fails, whatever the flags of the receiver, and leaves the six flags
\* as they were; so on the builder cssSelectorBuilder.combine returns every
\* fragment method, element too, succeeds and appends its text right after
\* the text of the right operand.
C16_CombineChecksNothing ==
  /\ last.op = "combine"
       => /\ last.err = NoError
          /\ Flags(builders[last.self])
               = IF last.facade THEN [cat \in CategoryNames |-> FALSE]
                                ELSE Flags(pre[last.self])
  /\ FacadeCombined
       => \A cat \in CategoryNames, value \in Values :
             LET r == Builder_call(builders, last.ret, cat, value)
             IN  /\ r.err = NoError
                 /\ r.heap[last.ret].value1
                      = pre[last.left].value1 \o <<" ">> \o last.value \o <<" ">>
                          \o pre[last.right].value1 \o Format(cat, value)

C16_Witness ==
  /\ FragmentCalled /\ last.op = "element" /\ last.err = NoError
  /\ Cats(log[last.self]) = <<"combine", "element">>
  /\ builders[last.self].value1 = <<":", ":", "a", " ", "+", " ", ":", ":", "a", "a">>

\* C17 as stated: after r.combine(left, c, right), also when left or right
\* is r, the text of r is its text before the call, then the text left had
\* before the call, a space, c, a space, and the text right had before the
\* call.
C17_Original ==
  CombineCalled
    => builders[last.self].value1
         = pre[last.self].value1 \o pre[last.left].value1 \o <<" ">> \o last.value
             \o <<" ">> \o pre[last.right].value1

\* C17, amended: that holds whenever right is not r (left may be r).  When
\* right is r, the text of r is read after the first four pieces were
\* appended: the text of r is then its text before the call, the text left
\* had before the call, a space, c, a space, and all of that once more.
C17_CombineAppends ==
  CombineCalled
    => LET front == pre[last.self].value1 \o pre[last.left].value1 \o <<" ">>
                      \o last.value \o <<" ">>
       IN  builders[last.self].value1
             = front \o (IF last.right = last.self THEN front
                                                   ELSE pre[last.right].value1)

C17_Witness ==
  /\ CombineCalled /\ last.right = last.self /\ last.left # last.self
  /\ pre[last.self].value1 = <<"a">>
  /\ pre[last.left].value1 = <<"#", "a">>
  /\ builders[last.self].value1
       = <<"a", "#", "a", " ", "+", " ", "a", "#", "a", " ", "+", " ">>

\* C18: the six fragment entry points of the facade never fail: for every
\* value, the empty string too, the builder returned has exactly the one
\* formatted fragment as text and exactly the flag of that category set.
C18_FacadeFragmentSucceeds ==
  AnyFragmentCalled /\ last.facade
    => /\ last.err = NoError
       /\ last.ret \in Refs
       /\ builders[last.ret].value1 = Format(last.op, last.value)
       /\ Flags(builders[last.ret]) = [cat \in CategoryNames |-> cat = last.op]

C18_Witness ==
  /\ AnyFragmentCalled /\ last.facade /\ last.err = NoError
  /\ last.op = "attr" /\ last.value = << >>
  /\ builders[last.ret].value1 = <<"[", "]">>
  /\ builders[last.ret].attrExist

\* C19: the flag of a category is set exactly when a fragment of that
\* category was appended to the builder; no call clears a flag that is set;
\* and whether a call is accepted depends on the flags only, not on the
\* text or on the value, so empty fragments count like any other.
C19_FlagsTrackAppends ==
  /\ \A b \in Refs : \A cat \in CategoryNames :
        Flag(builders[b], cat) <=> \E i \in DOMAIN log[b] : log[b][i].cat = cat
  /\ \A b \in DOMAIN pre : \A cat \in CategoryNames :
        Flag(pre[b], cat) => Flag(builders[b], cat)
  /\ FragmentCalled
       => \A value \in Values :
             last.err = Builder_call(<<[pre[last.self] EXCEPT !.value1 = << >>]>>,
                                     1, last.op, value).err

C19_Witness ==
  /\ FragmentCalled /\ last.op = "id" /\ last.err = OneTimeInsideError
  /\ Cats(log[last.self]) = <<"id">>
  /\ log[last.self][1].value = << >>
  /\ builders[last.self].value1 = <<"#">>
  /\ builders[last.self].idExist

====
